---- MODULE Spec2Model ----
(***************************************************************************)
(* Model of msprm.py: the control loop of main() with the Health           *)
(* Aggregator, Leader Locator (get_current_leader), Candidate Selector     *)
(* (get_best_candidate), the promotion policy, Promotion Executor          *)
(* (promote_node), Role Updater (update_roles) and Replication Dispatcher  *)
(* (reconfigure_replication).                                              *)
(*                                                                         *)
(* A node is a record of the registry list `nodes`; a reference to a node  *)
(* (current_leader, best_candidate) is its position in the list, 0 is      *)
(* Python's None.  The health probe, the promotion command and the         *)
(* reconfiguration command are external: their results are inputs.         *)
(* time.time() is read once per cycle and is taken to be non-decreasing.   *)
(* Every configured node carries failover_order and role; the healthy key  *)
(* is absent before the first probe and reads as false.  One step of the   *)
(* model is one statement group of the loop body: the timestamp, one       *)
(* probe, the decision, the promotion command, the role update with the    *)
(* clock reset, one dispatch iteration, the sleep.  Spec runs the loop     *)
(* over registries with unique names (the data model), SpecAnyNames over   *)
(* registries whose names may repeat (what the configuration can hold),    *)
(* SpecFair under fairness: the loop never stops and the promotion command *)
(* does not fail forever.                                                  *)
(***************************************************************************)
EXTENDS Integers, Sequences, FiniteSets, TLC

\* ---------------------------------------------------------------- bounds
MaxNodes == 3
MaxOrder == 3
MaxCooldown == 1
MaxTime == 2

\* the largest registry of the specification with fairness
LiveNodes == 2

VARIABLES
    nodes,               \* the registry: name, failover_order, role, healthy
    failback_enabled,    \* config
    promotion_cooldown,  \* config
    last_promotion_time,
    current_time,
    pc,                  \* position of the control loop inside the iteration
    idx,                 \* position of the running `for node in nodes` loop
    current_leader,
    best_candidate,
    promotion_needed,
    reason,
    success,
    \* history of the running iteration
    roles0,              \* roles when the iteration started
    lpt0,                \* last_promotion_time when the iteration started
    logged,              \* which of the branch log lines of the policy ran
    promoted_node,       \* node handed to promote_node in this iteration, 0 if none
    reconfigured,        \* calls of reconfigure_replication: node, leader, ok
    probed,              \* nodes whose healthy flag this iteration has written
    promote_calls,       \* calls of promote_node in this iteration
    \* history across iterations
    same_health,         \* every probe so far repeated the previous iteration's result
    prev,                \* summary of the previous iteration
    emergency_time,      \* timestamp of the latest successful leader-down promotion, -1 if none
    promoted_once        \* a promotion has succeeded and update_roles has run for it

vars == <<nodes, failback_enabled, promotion_cooldown, last_promotion_time,
          current_time, pc, idx, current_leader, best_candidate,
          promotion_needed, reason, success, roles0, lpt0, logged,
          promoted_node, reconfigured, probed, promote_calls, same_health,
          prev, emergency_time, promoted_once>>

Roles == {"leader", "replica"}

None == 0

\* ------------------------------------------------------------ pure helpers

SetMax(S) == CHOOSE m \in S : \A x \in S : x <= m

Indices(ns) == 1..Len(ns)

RolesOf(ns) == [i \in Indices(ns) |-> ns[i].role]

\* [node for node in nodes if pred]: the positions from i on whose node
\* passes (keep is the set of passing positions), in list order
RECURSIVE FilterFrom(_, _, _)
FilterFrom(ns, keep, i) ==
    IF i > Len(ns) THEN <<>>
    ELSE IF i \in keep THEN <<i>> \o FilterFrom(ns, keep, i + 1)
         ELSE FilterFrom(ns, keep, i + 1)

\* one insertion of list.sort: x goes behind every element whose key is <= its own
RECURSIVE InsertByOrder(_, _, _)
InsertByOrder(ns, s, x) ==
    IF s = <<>> THEN <<x>>
    ELSE IF ns[Head(s)].failover_order <= ns[x].failover_order
         THEN <<Head(s)>> \o InsertByOrder(ns, Tail(s), x)
         ELSE <<x>> \o s

\* list.sort(key=lambda n: n.get("failover_order")): a stable sort
RECURSIVE SortByOrder(_, _)
SortByOrder(ns, s) ==
    IF Len(s) <= 1 THEN s
    ELSE InsertByOrder(ns, SortByOrder(ns, SubSeq(s, 1, Len(s) - 1)), s[Len(s)])

\* node.get("role") == "leader"
Leaders(ns) == {i \in Indices(ns) : ns[i].role = "leader"}

\* node.get("healthy")
Healthy(ns) == {i \in Indices(ns) : ns[i].healthy}

\* variant: the first node marked leader, without the sort
get_current_leader_FirstListed(ns) ==
    LET leaders == FilterFrom(ns, Leaders(ns), 1)
    IN  IF leaders = <<>> THEN None ELSE leaders[1]

get_current_leader(ns) ==
    LET leaders == FilterFrom(ns, Leaders(ns), 1)
    IN  IF leaders = <<>> THEN None
        ELSE SortByOrder(ns, leaders)[1]

\* variant: the health filter is dropped
get_best_candidate_NoFilter(ns) ==
    SortByOrder(ns, [i \in Indices(ns) |-> i])[1]

\* variant: falls back to the first node when no node is healthy
get_best_candidate_Fallback(ns) ==
    LET healthy_nodes == FilterFrom(ns, Healthy(ns), 1)
    IN  IF healthy_nodes = <<>> THEN 1
        ELSE SortByOrder(ns, healthy_nodes)[1]

\* variant: the healthy node of highest failover_order is selected
get_best_candidate_HighestOrder(ns) ==
    LET healthy_nodes == FilterFrom(ns, Healthy(ns), 1)
    IN  IF healthy_nodes = <<>> THEN None
        ELSE SortByOrder(ns, healthy_nodes)[Len(healthy_nodes)]

get_best_candidate(ns) ==
    LET healthy_nodes == FilterFrom(ns, Healthy(ns), 1)
    IN  IF healthy_nodes = <<>> THEN None
        ELSE SortByOrder(ns, healthy_nodes)[1]

\* variant: the else branch is missing, former leaders keep their role
update_roles_NoDemote(ns, new_leader_name) ==
    [i \in Indices(ns) |->
        IF ns[i].name = new_leader_name
        THEN [ns[i] EXCEPT !.role = "leader"]
        ELSE ns[i]]

\* variant: the leader branch assigns replica as well
update_roles_NoPromote(ns, new_leader_name) ==
    [i \in Indices(ns) |-> [ns[i] EXCEPT !.role = "replica"]]

update_roles(ns, new_leader_name) ==
    [i \in Indices(ns) |->
        IF ns[i].name = new_leader_name
        THEN [ns[i] EXCEPT !.role = "leader"]
        ELSE [ns[i] EXCEPT !.role = "replica"]]

\* ------------------------------------------------------------------ policy

\* variant: the health test of the leader is inverted
LeaderDown_Inverted(ns, leader) == leader = None \/ ns[leader].healthy

LeaderDown(ns, leader) == leader = None \/ ~ns[leader].healthy

\* variant: > for >=
CooldownElapsed_Strict(now, last, cooldown) == now - last > cooldown

CooldownElapsed(now, last, cooldown) == now - last >= cooldown

\* variant: the cooldown also gates the leader-down path
Policy_CooldownOnEmergency(ns, leader, cand, now, last, cooldown, failback) ==
    IF LeaderDown(ns, leader)
    THEN IF cand # None
         THEN IF now - last >= cooldown
              THEN <<TRUE, "leader_down", "">>
              ELSE <<FALSE, "", "cooldown">>
         ELSE <<FALSE, "", "all_unhealthy">>
    ELSE IF failback /\ cand # None
         THEN IF ns[cand].failover_order < ns[leader].failover_order
              THEN IF now - last >= cooldown
                   THEN <<TRUE, "failback", "">>
                   ELSE <<FALSE, "", "cooldown">>
              ELSE <<FALSE, "", "">>
         ELSE <<FALSE, "", "">>

\* variant: <= for < in the comparison of failover_order
Policy_NonStrictOrder(ns, leader, cand, now, last, cooldown, failback) ==
    IF LeaderDown(ns, leader)
    THEN IF cand # None
         THEN <<TRUE, "leader_down", "">>
         ELSE <<FALSE, "", "all_unhealthy">>
    ELSE IF failback /\ cand # None
         THEN IF ns[cand].failover_order <= ns[leader].failover_order
              THEN IF now - last >= cooldown
                   THEN <<TRUE, "failback", "">>
                   ELSE <<FALSE, "", "cooldown">>
              ELSE <<FALSE, "", "">>
         ELSE <<FALSE, "", "">>

\* variant: failback_enabled is not consulted
Policy_IgnoreFailbackFlag(ns, leader, cand, now, last, cooldown, failback) ==
    IF LeaderDown(ns, leader)
    THEN IF cand # None
         THEN <<TRUE, "leader_down", "">>
         ELSE <<FALSE, "", "all_unhealthy">>
    ELSE IF cand # None
         THEN IF ns[cand].failover_order < ns[leader].failover_order
              THEN IF now - last >= cooldown
                   THEN <<TRUE, "failback", "">>
                   ELSE <<FALSE, "", "cooldown">>
              ELSE <<FALSE, "", "">>
         ELSE <<FALSE, "", "">>

\* lines 297-315: <<promotion_needed, reason, logged>>
Policy(ns, leader, cand, now, last, cooldown, failback) ==
    IF LeaderDown(ns, leader)
    THEN IF cand # None
         THEN <<TRUE, "leader_down", "">>
         ELSE <<FALSE, "", "all_unhealthy">>
    ELSE IF failback /\ cand # None
         THEN IF ns[cand].failover_order < ns[leader].failover_order
              THEN IF CooldownElapsed(now, last, cooldown)
                   THEN <<TRUE, "failback", "">>
                   ELSE <<FALSE, "", "cooldown">>
              ELSE <<FALSE, "", "">>
         ELSE <<FALSE, "", "">>

\* variant: the health test of the dispatch loop is missing
IsReconfigureTarget_NoHealth(ns, leader, j) ==
    ns[j].name # ns[leader].name

\* line 326: the nodes the dispatcher calls reconfigure_replication for
IsReconfigureTarget(ns, leader, j) ==
    ns[j].name # ns[leader].name /\ ns[j].healthy

\* variant: the result of promote_node is ignored
AfterPromote_Always(ok) == "update"

\* variant: the role update is skipped whatever promote_node returned
AfterPromote_Never(ok) == "sleep"

\* line 319: what follows the return of promote_node
AfterPromote(ok) == IF ok THEN "update" ELSE "sleep"

\* variant: a failed probe also demotes the node
Probed_Demote(ns, i, h) ==
    [ns EXCEPT ![i].healthy = h,
               ![i].role = IF h THEN ns[i].role ELSE "replica"]

\* variant: the decision sits inside the health loop
AfterProbe_Early(i, n) == "decide"

\* lines 277-285: the health loop ends before the leader is located
AfterProbe(i, n) == IF i = n THEN "decide" ELSE "probe"

\* variant: a failed reconfiguration command ends the dispatch loop
AfterReconfigure_AbortOnFailure(ok, i, n) ==
    IF i = n \/ ~ok THEN "sleep" ELSE "dispatch"

\* lines 200-205 and 325-333: a failed command is logged, the loop goes on
AfterReconfigure(ok, i, n) == IF i = n THEN "sleep" ELSE "dispatch"

\* lines 278-279: node["healthy"] = healthy
Probed(ns, i, h) == [ns EXCEPT ![i].healthy = h]

\* variant: only a failback promotion resets the clock
NewPromotionTime_FailbackOnly(now, last, why) ==
    IF why = "failback" THEN now ELSE last

\* line 322: last_promotion_time = current_time, on either path
NewPromotionTime(now, last, why) == now

\* -------------------------------------------------------------------- init

\* the data model's registry: name is a unique key
UniqueNames(n) == {[i \in 1..n |-> i]}

\* the registry the configuration file can hold: names may repeat.  Names
\* matter only through equality: one representative per pattern
AnyNames(n) ==
    {f \in [1..n -> 1..n] :
        /\ f[1] = 1
        /\ \A i \in 2..n : f[i] <= 1 + SetMax({f[k] : k \in 1..(i - 1)})}

\* failover_order matters only through < and <=: one representative per
\* ordering pattern (the values used are 1..k)
OrderChoices(n) ==
    {f \in [1..n -> 1..MaxOrder] :
        \A v \in 1..SetMax({f[i] : i \in 1..n}) : \E i \in 1..n : f[i] = v}

NoPrev == [reason |-> "", logged |-> "", success |-> FALSE, first |-> TRUE]

\* lines 256-270: the state when the loop is entered
Configured(names) ==
    /\ \E n \in 1..MaxNodes :
       \E nm \in names[n], ord \in OrderChoices(n), rl \in [1..n -> Roles] :
          nodes = [i \in 1..n |-> [name |-> nm[i], failover_order |-> ord[i],
                                   role |-> rl[i], healthy |-> FALSE]]
    /\ failback_enabled \in BOOLEAN
    /\ promotion_cooldown \in 0..MaxCooldown
    /\ last_promotion_time = 0
    /\ current_time = 0
    /\ pc = "start"
    /\ idx = 0
    /\ current_leader = None
    /\ best_candidate = None
    /\ promotion_needed = FALSE
    /\ reason = ""
    /\ success = FALSE
    /\ roles0 = RolesOf(nodes)
    /\ lpt0 = 0
    /\ logged = ""
    /\ promoted_node = None
    /\ reconfigured = <<>>
    /\ probed = {}
    /\ promote_calls = 0
    /\ same_health = FALSE
    /\ prev = NoPrev
    /\ emergency_time = -1
    /\ promoted_once = FALSE

Init == Configured([n \in 1..MaxNodes |-> UniqueNames(n)])

InitAnyNames == Configured([n \in 1..MaxNodes |-> AnyNames(n)])

\* ----------------------------------------------------------------- actions

config == <<failback_enabled, promotion_cooldown>>
locals == <<current_leader, best_candidate, promotion_needed, reason, success>>
cycleHist == <<roles0, lpt0, logged, promoted_node, reconfigured>>
callHist == <<promote_calls, promoted_once>>

\* line 274: current_time = time.time()
StartCycle ==
    /\ pc = "start"
    /\ \E t \in current_time..MaxTime : current_time' = t
    /\ pc' = "probe"
    /\ idx' = 1
    /\ UNCHANGED <<nodes, config, last_promotion_time, locals, cycleHist,
                   probed, callHist, same_health, prev, emergency_time>>

\* lines 277-279: node["healthy"] = check_node_health(node, timeout)
ProbeNode ==
    /\ pc = "probe"
    /\ idx <= Len(nodes)
    /\ \E h \in BOOLEAN :
          /\ nodes' = Probed(nodes, idx, h)
          /\ same_health' = (same_health /\ h = nodes[idx].healthy)
    /\ probed' = probed \cup {idx}
    /\ idx' = idx + 1
    /\ pc' = AfterProbe(idx, Len(nodes))
    /\ UNCHANGED <<config, last_promotion_time, current_time, locals,
                   cycleHist, callHist, prev, emergency_time>>

\* lines 285-316: locate the leader, select the candidate, decide
Decide ==
    /\ pc = "decide"
    /\ LET leader == get_current_leader(nodes)
           cand   == get_best_candidate(nodes)
           d      == Policy(nodes, leader, cand, current_time,
                            last_promotion_time, promotion_cooldown,
                            failback_enabled)
       IN  /\ current_leader' = leader
           /\ best_candidate' = cand
           /\ promotion_needed' = d[1]
           /\ reason' = d[2]
           /\ logged' = d[3]
           /\ pc' = IF d[1] /\ cand # None THEN "promote" ELSE "sleep"
    /\ UNCHANGED <<nodes, config, last_promotion_time, current_time, idx,
                   success, roles0, lpt0, promoted_node, reconfigured,
                   probed, callHist, same_health, prev, emergency_time>>

\* line 318: success = promote_node(best_candidate, promotion_command)
Promote ==
    /\ pc = "promote"
    /\ \E ok \in BOOLEAN :
          /\ success' = ok
          /\ pc' = AfterPromote(ok)
    /\ promoted_node' = best_candidate
    /\ promote_calls' = promote_calls + 1
    /\ UNCHANGED <<nodes, config, last_promotion_time, current_time, idx,
                   current_leader, best_candidate, promotion_needed, reason,
                   roles0, lpt0, logged, reconfigured, probed, same_health,
                   prev, emergency_time, promoted_once>>

\* lines 321-322: update_roles(...); last_promotion_time = current_time
UpdateRoles ==
    /\ pc = "update"
    /\ nodes' = update_roles(nodes, nodes[best_candidate].name)
    /\ last_promotion_time' = NewPromotionTime(current_time, last_promotion_time, reason)
    /\ emergency_time' = IF reason = "leader_down" THEN current_time
                         ELSE emergency_time
    /\ pc' = "dispatch"
    /\ idx' = 1
    /\ promoted_once' = TRUE
    /\ UNCHANGED <<config, current_time, locals, cycleHist, probed,
                   promote_calls, same_health, prev>>

\* lines 325-327: one iteration of the dispatch loop
Dispatch ==
    /\ pc = "dispatch"
    /\ idx <= Len(nodes)
    /\ IF IsReconfigureTarget(nodes, best_candidate, idx)
       THEN \E ok \in BOOLEAN :
               /\ reconfigured' = Append(reconfigured,
                      [node |-> idx, leader |-> best_candidate, ok |-> ok])
               /\ pc' = AfterReconfigure(ok, idx, Len(nodes))
       ELSE /\ UNCHANGED reconfigured
            /\ pc' = AfterReconfigure(TRUE, idx, Len(nodes))
    /\ idx' = idx + 1
    /\ UNCHANGED <<nodes, config, last_promotion_time, current_time, locals,
                   roles0, lpt0, logged, promoted_node, probed, callHist,
                   same_health, prev, emergency_time>>

\* line 333: time.sleep(check_interval), then the next iteration
Sleep ==
    /\ pc = "sleep"
    /\ pc' = "start"
    /\ idx' = 0
    /\ prev' = [reason |-> reason, logged |-> logged, success |-> success,
                first |-> FALSE]
    /\ current_leader' = None
    /\ best_candidate' = None
    /\ promotion_needed' = FALSE
    /\ reason' = ""
    /\ success' = FALSE
    /\ roles0' = RolesOf(nodes)
    /\ lpt0' = last_promotion_time
    /\ logged' = ""
    /\ promoted_node' = None
    /\ reconfigured' = <<>>
    /\ probed' = {}
    /\ promote_calls' = 0
    /\ same_health' = TRUE
    /\ UNCHANGED <<nodes, config, last_promotion_time, current_time,
                   emergency_time, promoted_once>>

Next ==
    \/ StartCycle
    \/ ProbeNode
    \/ Decide
    \/ Promote
    \/ UpdateRoles
    \/ Dispatch
    \/ Sleep

Spec == Init /\ [][Next]_vars

\* the same loop over registries whose names may repeat
SpecAnyNames == InitAnyNames /\ [][Next]_vars

\* line 178: the promotion command exits with status 0
PromoteSucceeds == Promote /\ success'

\* line 273: the loop never ends (while True), and the promotion command does
\* not fail on every call of an endless series of calls
Fairness == WF_vars(Next) /\ SF_vars(PromoteSucceeds)

\* the registries of at most LiveNodes nodes, for the claims about what
\* eventually happens
InitLive == Init /\ Len(nodes) <= LiveNodes

SpecFair == InitLive /\ [][Next]_vars /\ Fairness

\* ------------------------------------------------------- claim vocabulary

NamesUnique == \A i, j \in Indices(nodes) : nodes[i].name = nodes[j].name => i = j

LeaderSet(rl) == {i \in DOMAIN rl : rl[i] = "leader"}

HealthySet == {i \in Indices(nodes) : nodes[i].healthy = TRUE}

\* the registry as the decision step of the running iteration saw it: roles
\* are those of the iteration's start, health flags are final once probed
AtDecide == [i \in Indices(nodes) |-> [nodes[i] EXCEPT !.role = roles0[i]]]

Decided == pc \in {"promote", "update", "dispatch", "sleep"}

CycleEnd == pc = "sleep"

LocatedLeader == get_current_leader(AtDecide)

LeaderMissingOrDown == LocatedLeader = None \/ ~nodes[LocatedLeader].healthy

ExecutorInvoked == promoted_node # None

\* c is none iff S is empty, else the first position of minimal failover_order in S
FirstOfLowestOrder(S, c) ==
    IF S = {} THEN c = None
    ELSE /\ c \in S
         /\ \A j \in S : nodes[c].failover_order <= nodes[j].failover_order
         /\ \A j \in S : nodes[j].failover_order = nodes[c].failover_order => c <= j

\* ------------------------------------------------------------------ claims

\* C1: immediately after update_roles ran on a successful promotion, and
\* with unique node names, the promoted candidate has role leader and every
\* other node has role replica, so at most one node is leader, whatever the
\* roles were before.
C1_SingleLeaderAfterUpdate ==
    (pc = "dispatch" /\ idx = 1 /\ NamesUnique) =>
        /\ \A i \in Indices(nodes) :
              nodes[i].role = IF i = best_candidate THEN "leader" ELSE "replica"
        /\ Cardinality(LeaderSet(RolesOf(nodes))) <= 1

C1_Witness ==
    /\ pc = "dispatch" /\ idx = 1 /\ NamesUnique
    /\ Cardinality(LeaderSet(roles0)) >= 2
    /\ roles0[best_candidate] = "replica"
    /\ nodes[best_candidate].role = "leader"

\* C2: a cycle whose located leader is missing or unhealthy while some node
\* is healthy invokes the Promotion Executor on the Candidate Selector's
\* result in that cycle, whatever last_promotion_time, promotion_cooldown
\* and failback_enabled are.
C2_EmergencyNeverBlocked ==
    (CycleEnd /\ LeaderMissingOrDown /\ HealthySet # {}) =>
        /\ ExecutorInvoked
        /\ promoted_node = get_best_candidate(nodes)
        /\ reason = "leader_down"

C2_Witness ==
    /\ CycleEnd /\ LeaderMissingOrDown /\ HealthySet # {}
    /\ ExecutorInvoked
    /\ failback_enabled
    /\ current_time - lpt0 < promotion_cooldown

\* C3: in a cycle whose located leader is healthy, the Promotion Executor is
\* invoked iff failback is enabled, the best candidate's failover_order is
\* strictly lower than the leader's, and now - last_promotion_time >=
\* promotion_cooldown.
C3_FailbackGate ==
    (CycleEnd /\ ~LeaderMissingOrDown) =>
        (ExecutorInvoked <=>
            /\ failback_enabled
            /\ \E c \in HealthySet :
                  nodes[c].failover_order < nodes[LocatedLeader].failover_order
            /\ current_time - lpt0 >= promotion_cooldown)

C3_Witness ==
    /\ CycleEnd /\ ~LeaderMissingOrDown
    /\ ExecutorInvoked
    /\ promotion_cooldown > 0
    /\ current_time - lpt0 = promotion_cooldown

\* C4: when the Promotion Executor returned failure, roles and
\* last_promotion_time are at the end of the cycle what they were at its
\* start and the Replication Dispatcher did not run.
C4_FailureLeavesState ==
    (CycleEnd /\ ExecutorInvoked /\ ~success) =>
        /\ RolesOf(nodes) = roles0
        /\ last_promotion_time = lpt0
        /\ reconfigured = <<>>

C4_Witness ==
    /\ CycleEnd /\ ExecutorInvoked /\ ~success
    /\ reason = "failback"
    /\ current_time # lpt0
    /\ nodes[promoted_node].role = "replica"
    /\ \E j \in HealthySet : nodes[j].name # nodes[promoted_node].name

\* C5: get_best_candidate returns none iff no node is healthy, and otherwise
\* a healthy node of minimal failover_order among the healthy ones, the first
\* such node in registry order.
C5_CandidateSelector ==
    /\ FirstOfLowestOrder(HealthySet, get_best_candidate(nodes))
    /\ Decided => FirstOfLowestOrder(HealthySet, best_candidate)

C5_Witness ==
    /\ Decided
    /\ best_candidate # None
    /\ \E j \in Indices(nodes) :
          /\ j < best_candidate /\ ~nodes[j].healthy
          /\ nodes[j].failover_order < nodes[best_candidate].failover_order
    /\ \E k \in HealthySet :
          /\ k > best_candidate
          /\ nodes[k].failover_order = nodes[best_candidate].failover_order

\* C6: get_current_leader returns none iff no node has role leader, and
\* otherwise the node of minimal failover_order among those marked leader,
\* the first in registry order on ties, healthy or not.
C6_LeaderLocator ==
    /\ FirstOfLowestOrder(LeaderSet(RolesOf(nodes)), get_current_leader(nodes))
    /\ Decided => FirstOfLowestOrder(LeaderSet(roles0), current_leader)

C6_Witness ==
    /\ Decided
    /\ current_leader # None
    /\ ~nodes[current_leader].healthy
    /\ \E j \in LeaderSet(roles0) :
          nodes[j].failover_order > nodes[current_leader].failover_order
          /\ j < current_leader /\ nodes[j].healthy
    /\ \E k \in LeaderSet(roles0) :
          /\ k > current_leader
          /\ nodes[k].failover_order = nodes[current_leader].failover_order

\* the first of two runs neither was CooldownBlocked nor had its promotion fail
FirstRunSettled == prev.logged # "cooldown" /\ (prev.reason = "" \/ prev.success)

SecondRunSameHealth == CycleEnd /\ ~prev.first /\ same_health

\* C7 as claimed: a second cycle with the probe results of the first and a
\* healthy leader never invokes the Promotion Executor, whatever the first
\* cycle's outcome.
C7_IdempotenceAsClaimed ==
    (SecondRunSameHealth /\ ~LeaderMissingOrDown) => ~ExecutorInvoked

\* C7 amended: a second cycle with the probe results of the first and a
\* healthy leader does not invoke the Promotion Executor, provided the first
\* cycle was neither CooldownBlocked nor ended in a failed promotion.
C7_IdempotenceSettled ==
    (SecondRunSameHealth /\ ~LeaderMissingOrDown /\ FirstRunSettled) =>
        ~ExecutorInvoked

C7_Witness ==
    /\ SecondRunSameHealth /\ ~LeaderMissingOrDown /\ FirstRunSettled
    /\ prev.reason = "failback" /\ prev.success
    /\ failback_enabled
    /\ current_time - last_promotion_time >= promotion_cooldown
    /\ Cardinality(HealthySet) >= 2
    /\ ~ExecutorInvoked

\* C8: a successful promotion on either path sets last_promotion_time to the
\* cycle's timestamp t, and after a successful leader-down promotion at t no
\* failback promotion is requested in a cycle whose timestamp is below
\* t + promotion_cooldown.
C8_ClockResetBothPaths ==
    /\ (pc \in {"dispatch", "sleep"} /\ ExecutorInvoked /\ success) =>
          last_promotion_time = current_time
    /\ (Decided /\ reason = "failback" /\ emergency_time # -1) =>
          current_time >= emergency_time + promotion_cooldown

C8_Witness ==
    /\ CycleEnd /\ logged = "cooldown"
    /\ emergency_time > 0
    /\ emergency_time = last_promotion_time
    /\ current_time < emergency_time + promotion_cooldown
    /\ current_time >= promotion_cooldown

\* C9: roles differ from those at the cycle's start only after the Promotion
\* Executor returned success, and then they are exactly what update_roles
\* made of them: probing, locating, selecting and dispatching change no role.
C9_RolesOnlyByUpdater ==
    /\ RolesOf(nodes) # roles0 =>
          (pc \in {"dispatch", "sleep"} /\ ExecutorInvoked /\ success)
    /\ (pc \in {"dispatch", "sleep"} /\ ExecutorInvoked /\ success) =>
          RolesOf(nodes) = RolesOf(update_roles(AtDecide, nodes[promoted_node].name))

C9_Witness ==
    /\ CycleEnd /\ logged = "cooldown"
    /\ ~prev.first /\ ~same_health
    /\ prev.success
    /\ RolesOf(nodes) = roles0

\* C10: in a cycle where every node is unhealthy neither the Promotion
\* Executor nor the Replication Dispatcher is invoked, roles and
\* last_promotion_time keep their values, and the loop goes on to its sleep
\* and the next cycle.
C10_NoCandidateInert ==
    (HealthySet = {} /\ pc \notin {"start", "probe", "decide"}) =>
        /\ pc = "sleep"
        /\ logged = "all_unhealthy"
        /\ ~ExecutorInvoked
        /\ reconfigured = <<>>
        /\ RolesOf(nodes) = roles0
        /\ last_promotion_time = lpt0
        /\ ENABLED Sleep

C10_Witness ==
    /\ CycleEnd /\ HealthySet = {}
    /\ Len(nodes) >= 2
    /\ LeaderSet(roles0) # {}
    /\ prev.logged = "all_unhealthy"
    /\ logged = "all_unhealthy"

PromotionSucceeded == ExecutorInvoked /\ success

\* the number of reconfigure_replication calls made for node i in this cycle
ReconfigureCalls(i) ==
    Cardinality({k \in 1..Len(reconfigured) : reconfigured[k].node = i})

DispatchTargets ==
    {i \in Indices(nodes) : i # promoted_node /\ nodes[i].healthy = TRUE}

\* C11: after a successful promotion reconfigure_replication is called
\* exactly once for every healthy node other than the new leader, with the
\* new leader as its leader argument; never for an unhealthy node or the new
\* leader, and never in a cycle without a successful promotion.
C11_DispatchTargets ==
    /\ reconfigured # <<>> => PromotionSucceeded
    /\ \A k \in 1..Len(reconfigured) :
          /\ reconfigured[k].leader = promoted_node
          /\ nodes[reconfigured[k].leader].role = "leader"
          /\ reconfigured[k].node \in DispatchTargets
    /\ \A i \in Indices(nodes) : ReconfigureCalls(i) <= 1
    /\ (CycleEnd /\ PromotionSucceeded) =>
          \A i \in DispatchTargets : ReconfigureCalls(i) = 1

C11_Witness ==
    /\ CycleEnd /\ PromotionSucceeded
    /\ Len(reconfigured) = 1
    /\ \E i \in Indices(nodes) : i # promoted_node /\ ~nodes[i].healthy
    /\ promoted_node > reconfigured[1].node

\* C12: a failed reconfiguration command for one target does not stop the
\* dispatch to the remaining healthy targets and does not undo the
\* promotion: the promoted node stays leader, the others replica, and
\* last_promotion_time keeps the cycle's timestamp.
C12_ReconfigureFailureIsolated ==
    (CycleEnd /\ \E k \in 1..Len(reconfigured) : ~reconfigured[k].ok) =>
        /\ \A i \in DispatchTargets : ReconfigureCalls(i) = 1
        /\ \A i \in Indices(nodes) :
              nodes[i].role = IF nodes[i].name = nodes[promoted_node].name
                              THEN "leader" ELSE "replica"
        /\ nodes[promoted_node].role = "leader"
        /\ last_promotion_time = current_time
        /\ success

C12_Witness ==
    /\ CycleEnd
    /\ Len(reconfigured) = 2
    /\ ~reconfigured[1].ok
    /\ reconfigured[2].ok
    /\ current_time # lpt0

\* C13: with failback_enabled false the Promotion Executor is invoked only
\* in cycles whose located leader is missing or unhealthy, so a leader that
\* is healthy in a cycle is still the located leader at the end of it,
\* whatever the order and health of the other nodes.
C13_NoFailbackWhenDisabled ==
    ~failback_enabled =>
        /\ (Decided /\ (pc = "promote" \/ ExecutorInvoked)) => LeaderMissingOrDown
        /\ (CycleEnd /\ ~LeaderMissingOrDown) =>
              /\ ~ExecutorInvoked
              /\ get_current_leader(nodes) = LocatedLeader
              /\ RolesOf(nodes) = roles0

C13_Witness ==
    /\ ~failback_enabled
    /\ CycleEnd /\ ~LeaderMissingOrDown
    /\ \E c \in HealthySet :
          nodes[c].failover_order < nodes[LocatedLeader].failover_order
    /\ current_time - last_promotion_time >= promotion_cooldown
    /\ promoted_once
    /\ ~ExecutorInvoked

\* the leader is missing or unhealthy and some node is healthy in this cycle
EmergencyCycle == CycleEnd /\ LeaderMissingOrDown /\ HealthySet # {}

\* the node promoted in this cycle holds role leader and was probed healthy
PromotedHealthyLeads ==
    /\ pc \in {"dispatch", "sleep"}
    /\ PromotionSucceeded
    /\ nodes[promoted_node].role = "leader"
    /\ nodes[promoted_node].healthy = TRUE

\* C14: a failed promotion is retried by the next cycle: every cycle whose
\* leader is missing or unhealthy while some node is healthy calls
\* promote_node, once, on that cycle's best candidate, whatever the previous
\* cycle did; and if the promotion command does not fail forever, a cycle
\* whose promotion failed is followed by a cycle where the emergency is over
\* or by a node, healthy in its promotion cycle, holding role leader.
C14_FailedPromotionRetried ==
    /\ [](EmergencyCycle =>
            /\ promoted_node = get_best_candidate(nodes)
            /\ promote_calls = 1)
    /\ (EmergencyCycle /\ ~success) ~> (PromotedHealthyLeads \/ (CycleEnd /\ ~EmergencyCycle))

C14_Witness ==
    /\ prev.reason = "leader_down" /\ ~prev.success
    /\ same_health
    /\ PromotedHealthyLeads
    /\ reason = "leader_down"
    /\ CycleEnd

\* C15: a cycle probes, then decides, then acts: every node's healthy flag
\* was written by a probe of the running cycle before the leader is located
\* or the candidate selected, the decision is the one those flags give,
\* promote_node is called at most once per cycle, and roles, clock and
\* dispatcher move only after that call returned success.
C15_ProbeDecideAct ==
    /\ (pc = "decide" \/ Decided) => probed = Indices(nodes)
    /\ pc \in {"start", "probe", "decide"} =>
          /\ promote_calls = 0
          /\ current_leader = None /\ best_candidate = None
    /\ Decided =>
          /\ current_leader = LocatedLeader
          /\ FirstOfLowestOrder(HealthySet, best_candidate)
    /\ promote_calls <= 1
    /\ promote_calls = 1 <=> ExecutorInvoked
    /\ (\/ pc \in {"update", "dispatch"}
        \/ reconfigured # <<>>
        \/ RolesOf(nodes) # roles0
        \/ last_promotion_time # lpt0) => (promote_calls = 1 /\ success)

C15_Witness ==
    /\ pc = "dispatch"
    /\ promote_calls = 1 /\ success
    /\ probed = Indices(nodes) /\ Len(nodes) >= 3
    /\ ~prev.first /\ ~same_health
    /\ reconfigured # <<>>

\* C16 as claimed: promote_node is only ever called on a node whose role is
\* replica at that moment.
C16_OnlyReplicasPromoted ==
    pc = "promote" => nodes[best_candidate].role = "replica"

\* C16 amended: promote_node is never called on the node Leader Locator
\* returned, and the node it is called on has role replica whenever at most
\* one node is marked leader at that moment.
C16_NeverTheLocatedLeader ==
    pc = "promote" =>
        /\ best_candidate # None
        /\ best_candidate # current_leader
        /\ Cardinality(LeaderSet(RolesOf(nodes))) <= 1 =>
              nodes[best_candidate].role = "replica"

C16_Witness ==
    /\ pc = "promote"
    /\ reason = "failback"
    /\ promoted_once
    /\ Cardinality(LeaderSet(RolesOf(nodes))) = 1
    /\ nodes[best_candidate].role = "replica"

FailbackEligible ==
    /\ ~LeaderMissingOrDown
    /\ failback_enabled
    /\ \E c \in HealthySet :
          nodes[c].failover_order < nodes[LocatedLeader].failover_order

\* C17: before the first successful promotion no failback-eligible cycle is
\* blocked by the cooldown: a healthy leader, a healthy node of strictly
\* lower order and failback_enabled lead to a promotion request, whatever
\* promotion_cooldown is.
C17_NeverMeansNoCooldown ==
    (Decided /\ ~promoted_once /\ FailbackEligible) =>
        /\ logged # "cooldown"
        /\ (pc = "promote" \/ ExecutorInvoked)

\* C18: after a successful promotion the located leader is the promoted
\* node, it is healthy and first of the lowest failover_order among the
\* healthy nodes; a next cycle with the same probe results calls no
\* promote_node and changes neither roles nor clock.
C18_PromotionIsFixedPoint ==
    /\ (pc \in {"dispatch", "sleep"} /\ PromotionSucceeded) =>
          /\ get_current_leader(nodes) = promoted_node
          /\ nodes[promoted_node].healthy
          /\ FirstOfLowestOrder(HealthySet, get_current_leader(nodes))
    /\ (CycleEnd /\ ~prev.first /\ prev.success /\ same_health) =>
          /\ ~ExecutorInvoked
          /\ logged = ""
          /\ RolesOf(nodes) = roles0
          /\ last_promotion_time = lpt0

C18_Witness ==
    /\ CycleEnd /\ ~prev.first /\ prev.success /\ same_health
    /\ prev.reason = "leader_down"
    /\ failback_enabled
    /\ current_time - last_promotion_time >= promotion_cooldown
    /\ current_time > last_promotion_time
    /\ Cardinality(HealthySet) >= 2
    /\ \E i \in Indices(nodes) : ~nodes[i].healthy

\* C19: in every state after the first successful promotion exactly one
\* node has role leader; zero or several leaders occur only before it.
C19_SingleLeaderEverAfter ==
    promoted_once => Cardinality(LeaderSet(RolesOf(nodes))) = 1

C19_Witness ==
    /\ promoted_once
    /\ pc = "probe" /\ idx > 1
    /\ prev.logged = "all_unhealthy"
    /\ Cardinality(LeaderSet(RolesOf(nodes))) = 1
    /\ Len(nodes) >= 3

\* from some cycle on every probe returns what the previous one returned, and
\* some node is healthy
ProbesSettle == <>[](CycleEnd => (same_health /\ HealthySet # {}))

\* time advances: again and again a cycle decides with the cooldown elapsed
TimeAdvances ==
    []<>(pc = "decide" /\
         CooldownElapsed(current_time, last_promotion_time, promotion_cooldown))

ConvergencePremises == failback_enabled /\ ProbesSettle /\ TimeAdvances

NoPromotionRequested == ~promotion_needed /\ pc # "promote"

\* C20 as claimed: under the premises, eventually and for ever exactly one
\* node is marked leader, it is the first healthy node of minimal
\* failover_order in list order, and no promotion is requested.
C20_ConvergenceAsClaimed ==
    ConvergencePremises =>
        <>[](/\ \E c \in Indices(nodes) :
                   /\ LeaderSet(RolesOf(nodes)) = {c}
                   /\ FirstOfLowestOrder(HealthySet, c)
             /\ NoPromotionRequested)

\* the node get_current_leader returns is healthy and no healthy node has a
\* strictly lower failover_order
LeaderIsBest ==
    LET leader == get_current_leader(nodes)
    IN  /\ leader # None
        /\ nodes[leader].healthy = TRUE
        /\ \A j \in HealthySet :
              nodes[j].failover_order >= nodes[leader].failover_order

\* C20 amended: under the premises, eventually and for ever the located
\* leader is a healthy node of minimal failover_order among the healthy
\* nodes, no promotion is requested, and once a promotion has succeeded the
\* located leader is the only node marked leader.
C20_Convergence ==
    ConvergencePremises =>
        <>[](/\ LeaderIsBest
             /\ NoPromotionRequested
             /\ promoted_once =>
                    LeaderSet(RolesOf(nodes)) = {get_current_leader(nodes)})

C20_Witness ==
    /\ failback_enabled
    /\ CycleEnd /\ same_health
    /\ prev.reason = "failback" /\ prev.success
    /\ CooldownElapsed(current_time, last_promotion_time, promotion_cooldown)
    /\ Cardinality(HealthySet) > 1
    /\ LeaderIsBest
    /\ ~ExecutorInvoked /\ logged = ""

====
